---- MODULE Spec2Model ----
(***************************************************************************)
(* Model of the four-player Whist engine of src/game/whist.rs together     *)
(* with the card model of src/card.rs.                                     *)
(*                                                                         *)
(* The deck is scaled: the four suits are kept, and the first NumRanks     *)
(* ranks of standard::deck()'s rank list are used, so a deal has           *)
(* 4 * NumRanks cards and every player NumRanks hand slots.                *)
(* Option<T> is modelled as a sequence of length 0 (None) or 1 (Some).     *)
(***************************************************************************)
EXTENDS Integers, Sequences, FiniteSets, TLC

\* ---------------------------------------------------------------- bounds
\* number of ranks per suit in the scaled deck (13 in the source)
NumRanks == 2

\* number of distinct outcomes of the random generator that are explored
NumShuffles == 4

\* number of HighLow steps explored after the deck is exhausted
MaxExtraSteps == 3

\* ------------------------------------------------------------ card model
NumPlayers == 4

Suits == <<"Hearts", "Clubs", "Diamonds", "Spades">>

RankOrder ==
  <<"Ace", "Two", "Three", "Four", "Five", "Six", "Seven", "Eight", "Nine",
    "Ten", "Jack", "Queen", "King">>

Ranks == SubSeq(RankOrder, 1, NumRanks)

SuitSet == {Suits[i] : i \in 1..Len(Suits)}

RankSet == {Ranks[i] : i \in 1..Len(Ranks)}

None == <<>>

Some(x) == <<x>>

Unwrap(o) == o[1]

Card(s, r) == [suit |-> s, rank |-> r]

\* standard::deck(): suit-major, ranks in the order of the inner array
StandardDeck ==
  [i \in 1..(Len(Suits) * Len(Ranks)) |->
     Card(Suits[((i - 1) \div Len(Ranks)) + 1], Ranks[((i - 1) % Len(Ranks)) + 1])]

DeckSize == Len(StandardDeck)

HandSize == DeckSize \div NumPlayers

Slots == 0..(HandSize - 1)

CardSet == {StandardDeck[i] : i \in 1..DeckSize}

\* ------------------------------------------------- conditional comparator
RankValue(r) ==
  CASE r = "Two" -> 2
    [] r = "Three" -> 3
    [] r = "Four" -> 4
    [] r = "Five" -> 5
    [] r = "Six" -> 6
    [] r = "Seven" -> 7
    [] r = "Eight" -> 8
    [] r = "Nine" -> 9
    [] r = "Ten" -> 10
    [] r = "Jack" -> 11
    [] r = "Queen" -> 12
    [] r = "King" -> 13
    [] r = "Ace" -> 14

\* u8::cmp
Cmp(x, y) == IF x < y THEN "Less" ELSE IF x = y THEN "Equal" ELSE "Greater"

\* the declaration order of enum Rank, which a derived Ord would use
RankDeclared ==
  <<"Ace", "King", "Queen", "Jack", "Ten", "Nine", "Eight", "Seven", "Six",
    "Five", "Four", "Three", "Two">>

RankDiscriminant(r) == CHOOSE i \in 1..Len(RankDeclared) : RankDeclared[i] = r

\* mutant: ranks are compared by their enum discriminant
RankCompareByDiscriminant(a, b) == Cmp(RankDiscriminant(a), RankDiscriminant(b))

RankCompare(a, b) == Cmp(RankValue(a), RankValue(b))

\* info = <<leading suit, Option<trumps>>>
UnwrapOr(o, d) == IF o = None THEN d ELSE Unwrap(o)

\* mutant: the trump suit of the deal is ignored, the leading suit decides
SuitCompareLeadingOnly(self, other, info) ==
  IF self = other THEN "Equal"
  ELSE IF other = info[1] THEN "Less"
  ELSE "Greater"

SuitCompare(self, other, info) ==
  LET leading == info[1]
      trumps  == UnwrapOr(info[2], leading)
  IN  IF self = other THEN "Equal"
      ELSE IF other = trumps THEN "Less"
      ELSE "Greater"

\* mutant: the rank decides first, the suit only breaks ties
CardCompareRankFirst(self, other, info) ==
  LET o == RankCompare(self.rank, other.rank)
  IN  IF o = "Equal" THEN SuitCompare(self.suit, other.suit, info) ELSE o

CardCompare(self, other, info) ==
  LET o == SuitCompare(self.suit, other.suit, info)
  IN  IF o = "Equal" THEN RankCompare(self.rank, other.rank) ELSE o

\* ------------------------------------------------------ slice::sort_by
\* The comparator is not a total order, so the result of sort_by depends on
\* the algorithm of the standard library.  A 4-element slice is sorted by
\* insertion sort in every release; older releases insert from the back
\* (insert_head), newer ones from the front (insertion_sort_shift_left).
SortImpls == {"shift_left", "insert_head"}

IsLess(a, b, info) == CardCompare(a, b, info) = "Less"

RECURSIVE InsertTail(_, _, _)
InsertTail(s, x, info) ==
  IF s = <<>> \/ ~IsLess(x, s[Len(s)], info)
  THEN Append(s, x)
  ELSE Append(InsertTail(SubSeq(s, 1, Len(s) - 1), x, info), s[Len(s)])

RECURSIVE SortShiftLeft(_, _)
SortShiftLeft(v, info) ==
  IF v = <<>> THEN <<>>
  ELSE InsertTail(SortShiftLeft(SubSeq(v, 1, Len(v) - 1), info), v[Len(v)], info)

RECURSIVE InsertHead(_, _, _)
InsertHead(x, s, info) ==
  IF s = <<>> \/ ~IsLess(Head(s), x, info)
  THEN <<x>> \o s
  ELSE <<Head(s)>> \o InsertHead(x, Tail(s), info)

RECURSIVE SortInsertHead(_, _)
SortInsertHead(v, info) ==
  IF v = <<>> THEN <<>>
  ELSE InsertHead(Head(v), SortInsertHead(Tail(v), info), info)

SortBy(v, info, impl) ==
  IF impl = "shift_left" THEN SortShiftLeft(v, info) ELSE SortInsertHead(v, info)

\* ------------------------------------------------------------- shuffling
\* rand's SliceRandom::shuffle is a Fisher-Yates pass
\*   for i in (1..len).rev() { swap(i, gen_index(rng, i + 1)) }
\* The generator is seeded from entropy; the model explores the draws of
\* NumShuffles generator outcomes.
GenIndex(seed, i) == ((seed + 1) * (2 * i + 3) + seed * seed + i * i) % (i + 1)

\* mutant: the swap writes one element and loses the other
SwapOverwrite(s, i, j) == [s EXCEPT ![i] = s[j]]

Swap(s, i, j) == [s EXCEPT ![i] = s[j], ![j] = s[i]]

RECURSIVE FisherYates(_, _, _)
FisherYates(s, i, seed) ==
  IF i < 1 THEN s
  ELSE FisherYates(Swap(s, i + 1, GenIndex(seed, i) + 1), i - 1, seed)

Shuffle(s, seed) == FisherYates(s, Len(s) - 1, seed)

Seeds == 0..(NumShuffles - 1)

\* suits.shuffle(&mut rng); trumps = suits[0]
TrumpChoices == {Some(s) : s \in SuitSet} \cup {None}

\* ------------------------------------------------------------------ state
\* players .. ret: the Whist engine and the result of the last call on it
\* cmp: the last call of a comparator, with its arguments and results
\* hl:  the HighLow game
VARIABLES players, trick, seen, trumps, deck, sortImpl, ret, cmp, hl

vars == <<players, trick, seen, trumps, deck, sortImpl, ret, cmp, hl>>

\* no comparator call, no HighLow game constructed
NoCall == [op |-> "none", args |-> <<>>, info |-> <<>>, out |-> <<>>]

NoGame == [deck |-> <<>>, card |-> <<>>, score |-> 0, steps |-> 0,
           ret |-> [op |-> "none", kind |-> "ok", reward |-> 0, done |-> FALSE]]

engine == <<players, trick, seen, trumps, deck>>

NewPlayer(id) == [id |-> id, hand |-> [s \in Slots |-> None], score |-> 0]

Return(op, action, kind, reward, done) ==
  [op |-> op, action |-> action, kind |-> kind, reward |-> reward, done |-> done]

\* Whist::new()
New(op) ==
  /\ players' = <<NewPlayer(0), NewPlayer(1), NewPlayer(2), NewPlayer(3)>>
  /\ trick' = <<>>
  /\ seen' = <<>>
  /\ trumps' \in TrumpChoices
  /\ deck' = StandardDeck
  /\ ret' = Return(op, 0, "ok", 0, FALSE)
  /\ UNCHANGED <<cmp, hl>>

Init ==
  /\ players = <<NewPlayer(0), NewPlayer(1), NewPlayer(2), NewPlayer(3)>>
  /\ trick = <<>>
  /\ seen = <<>>
  /\ trumps \in TrumpChoices
  /\ deck = StandardDeck
  /\ sortImpl \in SortImpls
  /\ ret = Return("new", 0, "ok", 0, FALSE)
  /\ cmp = NoCall
  /\ hl = NoGame

Running == ret.kind # "panic"

AllHandsEmpty == \A p \in 1..NumPlayers : \A s \in Slots : players[p].hand[s] = None

\* the state Whist::new() leaves: nothing dealt, nothing played
Fresh == seen = <<>> /\ AllHandsEmpty

current_player == players[1]

observation == <<current_player.hand, seen, trumps, trick>>

\* mutant: the first seat is exchanged with seat k instead of rotating
RotateLeftSwap(s, k) ==
  [s EXCEPT ![1] = s[(k % Len(s)) + 1], ![(k % Len(s)) + 1] = s[1]]

\* mutant: the seating turns the other way
RotateRight(s, k) == [i \in 1..Len(s) |-> s[((i - 1 + Len(s) - (k % Len(s))) % Len(s)) + 1]]

RotateLeft(s, k) == [i \in 1..Len(s) |-> s[((i - 1 + k) % Len(s)) + 1]]

\* Whist::deal(): private, and every caller invokes it on a game that was
\* just constructed.
Deal ==
  /\ Running
  /\ Fresh
  /\ \E seed \in Seeds :
       /\ deck' = Shuffle(deck, seed)
       /\ players' =
            [p \in 1..NumPlayers |->
               [players[p] EXCEPT
                  !.hand = [s \in Slots |-> Some(deck'[s * NumPlayers + (p - 1) + 1])]]]
  /\ ret' = Return("deal", 0, "ok", 0, FALSE)
  /\ UNCHANGED <<trick, seen, trumps, sortImpl, cmp, hl>>

\* Whist::legal_actions()
SlotSeq == [i \in 1..HandSize |-> i - 1]

HasLeading(hand, leading_suit) ==
  \E s \in Slots : hand[s] # None /\ Unwrap(hand[s]).suit = leading_suit

\* mutant: the follow-suit filter is dropped
LegalActionsOfAnyHeld(hand, tr) == SelectSeq(SlotSeq, LAMBDA i : hand[i] # None)

\* mutant: the filter is applied without the has_leading test
LegalActionsOfAlwaysRetain(hand, tr) ==
  LET actions == SelectSeq(SlotSeq, LAMBDA i : hand[i] # None)
  IN  IF tr = <<>> THEN actions
      ELSE SelectSeq(actions, LAMBDA i : Unwrap(hand[i]).suit = tr[1].suit)

LegalActionsOf(hand, tr) ==
  LET actions == SelectSeq(SlotSeq, LAMBDA i : hand[i] # None)
  IN  IF tr = <<>> THEN actions
      ELSE LET leading_suit == tr[1].suit
           IN  IF ~HasLeading(hand, leading_suit) THEN actions
               ELSE SelectSeq(actions, LAMBDA i : Unwrap(hand[i]).suit = leading_suit)

legal_actions == LegalActionsOf(current_player.hand, trick)

\* ------------------------------------------------------------ Whist::step
\* action is a u8; every index >= 13 is out of the hand array, HandSize
\* stands for all of them
Actions == 0..HandSize

\* player.hand[action].unwrap() panics on an index out of the array and on
\* an empty slot, before anything is written
StepPanics(a) == IF a \notin Slots THEN TRUE ELSE current_player.hand[a] = None

\* mutant: the played card stays in its hand slot
TakeCardKept(ps, a) == ps

\* mutant: the whole hand of the player is emptied
TakeCardClearsHand(ps, a) == [ps EXCEPT ![1].hand = [s \in Slots |-> None]]

\* player.hand[action as usize] = None
TakeCard(ps, a) == [ps EXCEPT ![1].hand[a] = None]

\* self.trick.iter().position(|c| c == x).unwrap(), 0-based
Position(t, x) ==
  CHOOSE i \in 0..(Len(t) - 1) :
    /\ t[i + 1] = x
    /\ \A j \in 0..(i - 1) : t[j + 1] # x

\* sort the trick under (leading suit, trumps); the winner is the position
\* in the trick of the last card of the sorted copy
Winner(t, tr, impl) ==
  LET leading == t[1]
      sorted  == SortBy(t, <<leading.suit, tr>>, impl)
  IN  Position(t, sorted[Len(sorted)])

\* mutant: the seating is rotated by the winner's position, not one past it
ResolveOffByOne(ps, winner) ==
  LET rotated == RotateLeft(ps, winner)
  IN  [rotated EXCEPT ![1].score = @ + 1]

\* mutant: the trick is not counted
ResolveNoScore(ps, winner) == RotateLeft(ps, winner + 1)

\* self.players.rotate_left(winner + 1); self.players[0].score += 1
Resolve(ps, winner) ==
  LET rotated == RotateLeft(ps, winner + 1)
  IN  [rotated EXCEPT ![1].score = @ + 1]

StepPanic(a) ==
  /\ Running
  /\ StepPanics(a)
  /\ ret' = Return("step", a, "panic", 0, FALSE)
  /\ UNCHANGED <<players, trick, seen, trumps, deck, sortImpl, cmp, hl>>

StepRotate(a) ==
  /\ Running
  /\ ~StepPanics(a)
  /\ LET card == Unwrap(current_player.hand[a])
     IN  /\ Len(Append(trick, card)) # 4
         /\ trick' = Append(trick, card)
         /\ seen' = Append(seen, card)
         /\ players' = RotateLeft(TakeCard(players, a), 1)
  /\ ret' = Return("step", a, "ok", 0, FALSE)
  /\ UNCHANGED <<trumps, deck, sortImpl, cmp, hl>>

\* mutant: seen is cleared together with the trick
StepResolveClearsSeen(a) ==
  /\ Running
  /\ ~StepPanics(a)
  /\ LET card == Unwrap(current_player.hand[a])
         full == Append(trick, card)
     IN  /\ Len(full) = 4
         /\ seen' = <<>>
         /\ players' = Resolve(TakeCard(players, a), Winner(full, trumps, sortImpl))
         /\ trick' = <<>>
  /\ ret' = Return("step", a, "ok", 0, FALSE)
  /\ UNCHANGED <<trumps, deck, sortImpl, cmp, hl>>

StepResolve(a) ==
  /\ Running
  /\ ~StepPanics(a)
  /\ LET card == Unwrap(current_player.hand[a])
         full == Append(trick, card)
     IN  /\ Len(full) = 4
         /\ seen' = Append(seen, card)
         /\ players' = Resolve(TakeCard(players, a), Winner(full, trumps, sortImpl))
         /\ trick' = <<>>
  /\ ret' = Return("step", a, "ok", 0, FALSE)
  /\ UNCHANGED <<trumps, deck, sortImpl, cmp, hl>>

\* Whist::reset(): *self = Whist::new()
Reset ==
  /\ Running
  /\ New("reset")
  /\ UNCHANGED sortImpl

Next ==
  \/ Deal
  \/ \E a \in Actions : StepPanic(a)
  \/ \E a \in Actions : StepRotate(a)
  \/ \E a \in Actions : StepResolve(a)
  \/ Reset

Spec == Init /\ [][Next]_vars

\* ------------------------------------------- the comparators on their own
\* The comparators are pure functions; this specification calls them on all
\* ranks, suits, cards of the 52-card deck and contexts, the engine idle.
AllRanks == {RankOrder[i] : i \in 1..Len(RankOrder)}

AllCards == {Card(s, r) : s \in SuitSet, r \in AllRanks}

Contexts == SuitSet \X TrumpChoices

WhistIdle ==
  /\ players = <<NewPlayer(0), NewPlayer(1), NewPlayer(2), NewPlayer(3)>>
  /\ trick = <<>>
  /\ seen = <<>>
  /\ trumps = None
  /\ deck = StandardDeck
  /\ sortImpl = "shift_left"
  /\ ret = Return("new", 0, "ok", 0, FALSE)

WhistUnchanged == UNCHANGED <<players, trick, seen, trumps, deck, sortImpl, ret>>

\* the calls to make: arguments drawn, result not yet computed
Call(op, args, info) == [op |-> op, args |-> args, info |-> info, out |-> <<>>]

Calls ==
  {Call("rank", <<a, b, c>>, <<>>) : a \in AllRanks, b \in AllRanks, c \in AllRanks}
    \cup {Call("suit", <<x, y>>, info) : x \in SuitSet, y \in SuitSet, info \in Contexts}
    \cup {Call("card", <<x, y>>, info) : x \in AllCards, y \in AllCards, info \in Contexts}

InitCmp == WhistIdle /\ cmp \in Calls /\ hl = NoGame

Pending(op) == cmp.op = op /\ cmp.out = <<>>

Returned(op) == cmp.op = op /\ cmp.out # <<>>

\* Rank::compare on three ranks: a with b, b with a, b with c, a with c
CompareRanks ==
  /\ Pending("rank")
  /\ LET a == cmp.args[1]
         b == cmp.args[2]
         c == cmp.args[3]
     IN  cmp' = [cmp EXCEPT !.out = <<RankCompare(a, b), RankCompare(b, a),
                                      RankCompare(b, c), RankCompare(a, c)>>]
  /\ WhistUnchanged
  /\ UNCHANGED hl

\* Suit::compare
CompareSuits ==
  /\ Pending("suit")
  /\ cmp' = [cmp EXCEPT !.out = <<SuitCompare(cmp.args[1], cmp.args[2], cmp.info)>>]
  /\ WhistUnchanged
  /\ UNCHANGED hl

\* Card::compare
CompareCards ==
  /\ Pending("card")
  /\ cmp' = [cmp EXCEPT !.out = <<CardCompare(cmp.args[1], cmp.args[2], cmp.info)>>]
  /\ WhistUnchanged
  /\ UNCHANGED hl

NextCmp == CompareRanks \/ CompareSuits \/ CompareCards

SpecCmp == InitCmp /\ [][NextCmp]_vars

\* ---------------------------------------------------------------- HighLow
\* src/game/highlow.rs: one player guesses whether the next card of the
\* deck is higher or lower.  hl.steps counts the step calls since the last
\* new() or reset().
HLActions == {"Higher", "Lower"}

\* Card::compare of highlow.rs: the rank alone
HLCardCompare(self, other) == RankCompare(self.rank, other.rank)

HLReturn(op, reward, done) == [op |-> op, kind |-> "ok", reward |-> reward, done |-> done]

\* HighLow::new() and reset(): shuffle the standard deck, pop the last card
HLNew(seed, op) ==
  LET d == Shuffle(StandardDeck, seed)
  IN  [deck |-> SubSeq(d, 1, Len(d) - 1), card |-> d[Len(d)], score |-> 0,
       steps |-> 0, ret |-> HLReturn(op, 0, FALSE)]

HLScore(score, action, higher) ==
  IF action = "Higher" /\ higher = "Greater" THEN score + 1
  ELSE IF action = "Lower" /\ higher = "Less" THEN score + 1
  ELSE 0

\* mutant: done is never reported by a step that takes a card
HLIsDoneNever(d) == FALSE

\* self.deck.is_empty()
HLIsDone(d) == d = <<>>

InitHL == WhistIdle /\ cmp = NoCall /\ \E seed \in Seeds : hl = HLNew(seed, "new")

\* step on an exhausted deck: pop() is None
HLStepExhausted(action) ==
  /\ hl.deck = <<>>
  /\ hl.steps < DeckSize - 1 + MaxExtraSteps
  /\ hl' = [hl EXCEPT !.steps = @ + 1, !.ret = HLReturn("step", hl.score, TRUE)]
  /\ WhistUnchanged
  /\ UNCHANGED cmp

HLStepDraw(action) ==
  /\ hl.deck # <<>>
  /\ LET card   == hl.deck[Len(hl.deck)]
         rest   == SubSeq(hl.deck, 1, Len(hl.deck) - 1)
         higher == HLCardCompare(card, hl.card)
         score  == HLScore(hl.score, action, higher)
     IN  hl' = [deck |-> rest, card |-> card, score |-> score,
                steps |-> hl.steps + 1, ret |-> HLReturn("step", score, HLIsDone(rest))]
  /\ WhistUnchanged
  /\ UNCHANGED cmp

HLReset ==
  /\ \E seed \in Seeds : hl' = HLNew(seed, "reset")
  /\ WhistUnchanged
  /\ UNCHANGED cmp

NextHL ==
  \/ \E action \in HLActions : HLStepExhausted(action)
  \/ \E action \in HLActions : HLStepDraw(action)
  \/ HLReset

SpecHL == InitHL /\ [][NextHL]_vars

TypeOK ==
  /\ Len(players) = NumPlayers
  /\ \A p \in 1..NumPlayers :
       \A s \in Slots : players[p].hand[s] = None \/ Unwrap(players[p].hand[s]) \in CardSet
  /\ trumps \in TrumpChoices
  /\ Len(trick) <= 3

\* ------------------------------------------------- vocabulary of the claims
Dealt == ~Fresh

SeqSet(t) == {t[i] : i \in 1..Len(t)}

HeldSlots(hand) == {s \in Slots : hand[s] # None}

\* the id of the player the card was dealt to: deal() gives deck[i] to
\* players[i % 4], which is the player with id i % 4
Owner(c) == (CHOOSE i \in 0..(DeckSize - 1) : deck[i + 1] = c) % NumPlayers

PlayerById(ps, id) == ps[CHOOSE p \in 1..NumPlayers : ps[p].id = id]

SumScores == players[1].score + players[2].score + players[3].score + players[4].score

HandCards(p) == {Unwrap(players[p].hand[s]) : s \in HeldSlots(players[p].hand)}

SeenBeforeTrick == SubSeq(seen, 1, Len(seen) - Len(trick))

\* the places a card can be in: hand slots, the trick, seen before the trick
PlacesFilled ==
  Cardinality(HeldSlots(players[1].hand)) + Cardinality(HeldSlots(players[2].hand))
    + Cardinality(HeldSlots(players[3].hand)) + Cardinality(HeldSlots(players[4].hand))
    + Len(trick) + Len(SeenBeforeTrick)

CardsPlaced ==
  HandCards(1) \cup HandCards(2) \cup HandCards(3) \cup HandCards(4)
    \cup SeqSet(trick) \cup SeqSet(SeenBeforeTrick)

\* the last step played the fourth card of a trick
TrickJustCompleted == ret.op = "step" /\ ret.kind = "ok" /\ trick = <<>>

LastTrick == SubSeq(seen, Len(seen) - 3, Len(seen))

IsTrump(c) == IF trumps = None THEN FALSE ELSE c.suit = Unwrap(trumps)

HighestOfSuit(t, s) ==
  CHOOSE c \in SeqSet(t) :
    /\ c.suit = s
    /\ \A d \in SeqSet(t) : d.suit = s => RankValue(d.rank) <= RankValue(c.rank)

\* every card of the trick off the leading suit was played by a player who
\* held no card of the leading suit (the hands are those after the trick)
FollowedSuit(t) ==
  \A k \in 2..Len(t) :
    t[k].suit # t[1].suit => ~HasLeading(PlayerById(players, Owner(t[k])).hand, t[1].suit)

IsLegal(a) == \E i \in 1..Len(legal_actions) : legal_actions[i] = a

\* ------------------------------------------------------------------ C1
\* C1: in every state of a dealt game each card of the deck is in exactly
\* one place: a hand slot, the current trick, or seen before the current
\* trick.  Stated by counting: every card of the deck is in some place, and
\* there are as many filled places as cards, so none is in two.
C1_Partition == Dealt => (CardSet \subseteq CardsPlaced /\ PlacesFilled = DeckSize)

C1_Witness ==
  /\ Dealt
  /\ Len(trick) >= 1
  /\ Len(seen) > Len(trick)
  /\ ~AllHandsEmpty
  /\ ret.op = "step"

\* ------------------------------------------------------------------ C2
\* C2: a successful step returns done = true exactly when all four hands
\* are empty after it.
C2_DoneIffHandsEmpty ==
  (ret.op = "step" /\ ret.kind = "ok") => (ret.done <=> AllHandsEmpty)

\* ------------------------------------------------------------------ C3
\* C3: a step of a game in play with an action outside legal_actions() is
\* answered with an error and changes nothing of the engine.
C3_IllegalRejected ==
  [][(~AllHandsEmpty /\ ret'.op = "step" /\ ~IsLegal(ret'.action))
       => (ret'.kind = "error" /\ UNCHANGED engine)]_vars

\* ------------------------------------------------------------------ C4
\* C4: after new() and after reset() every hand slot of every player is
\* filled, trick and seen are empty, the scores are 0 and legal_actions()
\* is not empty.
C4_FreshDeal ==
  ret.op \in {"new", "reset"} =>
    /\ \A p \in 1..NumPlayers : HeldSlots(players[p].hand) = Slots
    /\ trick = <<>>
    /\ seen = <<>>
    /\ \A p \in 1..NumPlayers : players[p].score = 0
    /\ legal_actions # <<>>

\* ------------------------------------------------------------------ C5
\* C5: legal_actions() lists, without repetition, the held slots when the
\* trick is empty; the held slots of the leading suit when the player holds
\* that suit; all held slots when the player holds none of it.
C5_LegalActions ==
  LET hand == current_player.hand
      held == HeldSlots(hand)
      la   == SeqSet(legal_actions)
  IN  /\ Len(legal_actions) = Cardinality(la)
      /\ trick = <<>> => la = held
      /\ trick # <<>> =>
           LET follow == {s \in held : Unwrap(hand[s]).suit = trick[1].suit}
           IN  IF follow # {} THEN la = follow ELSE la = held

C5_Witness ==
  /\ trick # <<>>
  /\ \E s1, s2 \in HeldSlots(current_player.hand) :
       /\ Unwrap(current_player.hand[s1]).suit = trick[1].suit
       /\ Unwrap(current_player.hand[s2]).suit # trick[1].suit
  /\ Len(legal_actions) < Cardinality(HeldSlots(current_player.hand))

\* ------------------------------------------------------------------ C6
\* C6: a completed trick, played following suit, that holds no trump card
\* is won by the player of the highest card of the leading suit.
C6_LeadingSuitWins ==
  (/\ TrickJustCompleted
   /\ FollowedSuit(LastTrick)
   /\ \A k \in 1..4 : ~IsTrump(LastTrick[k]))
    => current_player.id = Owner(HighestOfSuit(LastTrick, LastTrick[1].suit))

\* ------------------------------------------------------------------ C7
\* C7: a completed trick that holds a card of the trump suit is won by the
\* player of the highest trump card.
C7_TrumpWins ==
  (TrickJustCompleted /\ \E k \in 1..4 : IsTrump(LastTrick[k]))
    => current_player.id = Owner(HighestOfSuit(LastTrick, Unwrap(trumps)))

C7_Witness ==
  /\ TrickJustCompleted
  /\ ~IsTrump(LastTrick[1])
  /\ \E k \in 2..4 :
       /\ IsTrump(LastTrick[k])
       /\ current_player.id = Owner(LastTrick[k])
       /\ \E j \in 1..4 : RankValue(LastTrick[j].rank) > RankValue(LastTrick[k].rank)

\* ------------------------------------------------------------------ C8
\* C8: the step that plays the fourth card of a trick makes the player of
\* the winning card the current player, adds one to that player's score
\* and to no other, and empties the trick.
ScoreIn(ps, id) == PlayerById(ps, id).score

C8_WinnerLeads ==
  [][(Len(trick) = 3 /\ ret'.op = "step" /\ ret'.kind = "ok")
       => LET full == Append(trick, Unwrap(current_player.hand[ret'.action]))
          IN  \E wid \in {Owner(full[Winner(full, trumps, sortImpl) + 1])} :
                /\ players'[1].id = wid
                /\ ScoreIn(players', wid) = ScoreIn(players, wid) + 1
                /\ \A id \in (0..(NumPlayers - 1)) \ {wid} :
                     ScoreIn(players', id) = ScoreIn(players, id)
                /\ trick' = <<>>]_vars

C8_Witness ==
  /\ TrickJustCompleted
  /\ current_player.id = Owner(LastTrick[4])
  /\ current_player.score >= 1
  /\ Len(seen) > 4

\* ------------------------------------------------------------------ C9
\* C9: the scores sum to the number of completed tricks, and to the number
\* of tricks of a deal once every card has been played.
C9_ScoreSum ==
  /\ SumScores = Len(seen) \div 4
  /\ Len(seen) = DeckSize => SumScores = HandSize

C9_Witness == Dealt /\ Len(seen) = DeckSize /\ SumScores = HandSize /\ AllHandsEmpty

\* ------------------------------------------------------------------ C10
\* C10: a step after the deal is finished is answered with an error and
\* changes nothing of the engine.
C10_PostTerminalError ==
  [][(Len(seen) = DeckSize /\ AllHandsEmpty /\ ret'.op = "step")
       => (ret'.kind = "error" /\ UNCHANGED engine)]_vars

\* ------------------------------------------------------------------ C11
\* C11: in a dealt game with cards left to play legal_actions() is not
\* empty; it is empty only when every hand is empty and all cards are played.
C11_LegalActionsNonEmpty ==
  Dealt =>
    /\ Len(seen) < DeckSize => legal_actions # <<>>
    /\ legal_actions = <<>> => (AllHandsEmpty /\ Len(seen) = DeckSize)

\* a player void in the leading suit, down to the last card, still has a move
C11_Witness ==
  /\ Dealt
  /\ trick # <<>>
  /\ ~HasLeading(current_player.hand, trick[1].suit)
  /\ Cardinality(HeldSlots(current_player.hand)) = 1
  /\ Len(legal_actions) = 1

\* ------------------------------------------------------------------ C12
\* C12: a step that leaves the trick with fewer than 4 cards makes the next
\* player in seat order (id + 1 modulo 4) the current player, returns reward
\* 0 and done = false, and changes no score.
C12_RotateToNext ==
  [][(Len(trick) < 3 /\ ret'.op = "step" /\ ret'.kind = "ok")
       => /\ players'[1].id = (players[1].id + 1) % NumPlayers
          /\ ret'.reward = 0
          /\ ret'.done = FALSE
          /\ \A id \in 0..(NumPlayers - 1) :
               ScoreIn(players', id) = ScoreIn(players, id)]_vars

\* the seat order wraps: player 3 has just played and player 0 is next
C12_Witness ==
  /\ ret.op = "step"
  /\ ret.kind = "ok"
  /\ trick # <<>>
  /\ Owner(trick[Len(trick)]) = NumPlayers - 1
  /\ current_player.id = 0

\* ------------------------------------------------------------------ C13
\* C13: after deal() every hand slot of every player holds a card, and the
\* cards held are pairwise distinct: together they are the whole deck.
C13_DealFillsHands ==
  ret.op = "deal" =>
    /\ \A p \in 1..NumPlayers : HeldSlots(players[p].hand) = Slots
    /\ \A p, q \in 1..NumPlayers : \A s, t \in Slots :
         (players[p].hand[s] = players[q].hand[t]) => (p = q /\ s = t)
    /\ HandCards(1) \cup HandCards(2) \cup HandCards(3) \cup HandCards(4) = CardSet

C13_Witness ==
  /\ ret.op = "deal"
  /\ deck # StandardDeck
  /\ \A p \in 1..NumPlayers : HeldSlots(players[p].hand) = Slots

\* ------------------------------------------------------------------ C16
\* C16: in a completed trick played following suit exactly one card
\* compares Greater than each of the other three under (leading suit,
\* trumps).
Maxima(t, info) ==
  {k \in 1..Len(t) :
     \A j \in (1..Len(t)) \ {k} : CardCompare(t[k], t[j], info) = "Greater"}

C16_UniqueMaximum ==
  (TrickJustCompleted /\ FollowedSuit(LastTrick))
    => Cardinality(Maxima(LastTrick, <<LastTrick[1].suit, trumps>>)) = 1

\* ------------------------------------------------------------------ C18
\* C18: a successful step appends the played card to seen and keeps the
\* earlier entries; between steps the trick has at most 3 cards and is the
\* last (Len(seen) modulo 4) entries of seen, in order.
TrickIsTailOfSeen ==
  /\ Len(trick) <= 3
  /\ Len(trick) = Len(seen) % 4
  /\ trick = SubSeq(seen, Len(seen) - Len(trick) + 1, Len(seen))

C18_SeenAppendOnly ==
  /\ []TrickIsTailOfSeen
  /\ [][(ret'.op = "step" /\ ret'.kind = "ok")
          => seen' = Append(seen, Unwrap(current_player.hand[ret'.action]))]_vars

C18_Witness ==
  /\ ret.op = "step"
  /\ ret.kind = "ok"
  /\ Len(seen) = 6
  /\ Len(trick) = 2
  /\ trick = SubSeq(seen, 5, 6)

\* ------------------------------------------------------------------ C19
\* C19: a successful step empties the chosen slot of the player who was
\* current and leaves every other slot of every player, and the trump
\* suit, as they were.
C19_OnlyChosenSlotEmptied ==
  [][(ret'.op = "step" /\ ret'.kind = "ok")
       => /\ trumps' = trumps
          /\ \A id \in 0..(NumPlayers - 1) :
               \E old \in {PlayerById(players, id).hand} :
                 PlayerById(players', id).hand =
                   IF id = players[1].id
                   THEN [s \in Slots |-> IF s = ret'.action THEN None ELSE old[s]]
                   ELSE old]_vars

\* the player who just played keeps the other card
C19_Witness ==
  /\ ret.op = "step"
  /\ ret.kind = "ok"
  /\ trick # <<>>
  /\ players[NumPlayers].hand[ret.action] = None
  /\ HeldSlots(players[NumPlayers].hand) # {}
  /\ HeldSlots(players[1].hand) = Slots

\* ------------------------------------------------------------------ C20
\* C20: the players array is always a cyclic rotation of (0, 1, 2, 3), and
\* the cards of the running trick were played in seat order starting with
\* the leader, the current player being the next seat.
C20_CyclicSeating ==
  /\ \E k \in 0..(NumPlayers - 1) :
       \A i \in 1..NumPlayers : players[i].id = (i - 1 + k) % NumPlayers
  /\ (Dealt /\ trick # <<>>) =>
       \E leader \in {Owner(trick[1])} :
         /\ \A j \in 1..Len(trick) : Owner(trick[j]) = (leader + j - 1) % NumPlayers
         /\ current_player.id = (leader + Len(trick)) % NumPlayers

C20_Witness ==
  /\ Dealt
  /\ Len(seen) > 4
  /\ Len(trick) = 3
  /\ Owner(trick[1]) = 2
  /\ current_player.id = 1

\* ------------------------------------------------------------------ C14
\* C14: Rank comparison is a total order: compare(a, b) is the reverse of
\* compare(b, a), is Equal exactly for a = b, is transitive, and orders the
\* ranks Two < Three < ... < King < Ace.
Ascending ==
  <<"Two", "Three", "Four", "Five", "Six", "Seven", "Eight", "Nine", "Ten",
    "Jack", "Queen", "King", "Ace">>

Place(r) == CHOOSE i \in 1..Len(Ascending) : Ascending[i] = r

Reverse(o) == IF o = "Less" THEN "Greater" ELSE IF o = "Greater" THEN "Less" ELSE "Equal"

C14_RankTotalOrder ==
  Returned("rank") =>
    LET a  == cmp.args[1]
        b  == cmp.args[2]
        ab == cmp.out[1]
        ba == cmp.out[2]
        bc == cmp.out[3]
        ac == cmp.out[4]
    IN  /\ ab = Reverse(ba)
        /\ (ab = "Equal") <=> (a = b)
        /\ (ab = "Less" /\ bc = "Less") => ac = "Less"
        /\ (ab = "Equal" /\ bc = "Equal") => ac = "Equal"
        /\ (ab = "Less") <=> (Place(a) < Place(b))
        /\ (ab = "Greater") <=> (Place(a) > Place(b))

C14_Witness ==
  /\ Returned("rank")
  /\ cmp.args = <<"Two", "King", "Ace">>
  /\ cmp.out = <<"Less", "Greater", "Less", "Less">>

\* ------------------------------------------------------------------ C17
\* C17: with e the trump suit if set and the leading suit otherwise, Suit
\* compare(s, o) is Equal iff s = o, Less iff s # o and o = e, Greater
\* otherwise; Card compare is the suit result when the suits differ and the
\* rank comparison when they are equal.
Effective(info) == IF info[2] = None THEN info[1] ELSE info[2][1]

SuitResult(s, o, info) ==
  IF s = o THEN "Equal" ELSE IF o = Effective(info) THEN "Less" ELSE "Greater"

RankResult(a, b) ==
  IF Place(a) < Place(b) THEN "Less" ELSE IF Place(a) > Place(b) THEN "Greater" ELSE "Equal"

C17_SuitAndCardCompare ==
  /\ Returned("suit") =>
       LET s == cmp.args[1]
           o == cmp.args[2]
           e == Effective(cmp.info)
       IN  /\ (cmp.out[1] = "Equal") <=> (s = o)
           /\ (cmp.out[1] = "Less") <=> (s # o /\ o = e)
           /\ (cmp.out[1] = "Greater") <=> (s # o /\ o # e)
  /\ Returned("card") =>
       LET a == cmp.args[1]
           b == cmp.args[2]
       IN  cmp.out[1] = IF a.suit # b.suit
                        THEN SuitResult(a.suit, b.suit, cmp.info)
                        ELSE RankResult(a.rank, b.rank)

\* a low trump against an off-suit ace, the leading suit being a third suit
C17_Witness ==
  /\ Returned("card")
  /\ cmp.info = <<"Hearts", Some("Spades")>>
  /\ cmp.args = <<Card("Clubs", "Ace"), Card("Spades", "Two")>>
  /\ cmp.out = <<"Less">>

\* ------------------------------------------------------------------ C15
\* C15: in HighLow, counting the steps since new() or reset(), a step
\* returns done = true exactly from the step that takes the last card on
\* (the 51st; step DeckSize - 1 of the scaled deck); a step on the exhausted
\* deck returns normally with done = true and leaves card and score as
\* they were.
HLLastDraw == DeckSize - 1

C15_HighLowDone ==
  /\ [](hl.ret.op = "step" =>
          (hl.ret.kind = "ok" /\ (hl.ret.done <=> hl.steps >= HLLastDraw)))
  /\ [][(hl.deck = <<>> /\ hl'.ret.op = "step")
          => /\ hl'.ret.kind = "ok"
             /\ hl'.ret.done
             /\ hl'.card = hl.card
             /\ hl'.score = hl.score]_vars

C15_Witness ==
  /\ hl.ret.op = "step"
  /\ hl.steps = HLLastDraw + 1
  /\ hl.ret.done
  /\ hl.score >= 1
  /\ hl.deck = <<>>

====
